---- MODULE Spec2Model ----
(***************************************************************************)
(* Model of the mysql_query pipeline of the MySQL MCP server:              *)
(* handleQueryTool -> QueryExecutor.executeQuery -> parseQuery ->          *)
(* MySQLClient.executeQuery -> formatting -> handleQueryError.             *)
(*                                                                         *)
(* Text is a sequence of chunks.  A chunk is either a single non-word      *)
(* character (" ", "\n", ";", "(", ")", "-", "/", "*") or a run of word    *)
(* characters (a keyword in upper or lower case, or the letter "x").  Two  *)
(* adjacent word chunks are one longer word, exactly as in the             *)
(* concatenated string, so word boundaries, whitespace splitting and the   *)
(* gluing of tokens by deleted comments behave as on the real characters.  *)
(***************************************************************************)
EXTENDS Integers, Sequences, FiniteSets, TLC

\* ------------------------------------------------------------------ bounds
\* longest query, in input atoms, of each input family
MaxCteLen == 5
MaxBatchLen == 4
MaxCommentLen == 4
\* applyCharacterLimit is tried on every length within LenSpan of the limit
LenSpan == 30
\* connections of the pool (config.poolSize)
PoolSize == 2
\* queries of other requests queued before the request's
MaxAhead == 2
\* characters of the longest key a caller adds to the arguments
LongKeyLen == 30000

\* ------------------------------------------------------------- enumerations
READ_ONLY == "READ_ONLY"
WRITE_ENABLED == "WRITE_ENABLED"
OperationMode == {READ_ONLY, WRITE_ENABLED}

QueryType ==
  {"SELECT", "SHOW", "DESCRIBE", "EXPLAIN", "USE",
   "INSERT", "UPDATE", "DELETE", "REPLACE",
   "CREATE", "ALTER", "DROP", "TRUNCATE",
   "START_TRANSACTION", "COMMIT", "ROLLBACK", "SAVEPOINT",
   "GRANT", "REVOKE", "FLUSH", "KILL", "LOAD_DATA", "SET",
   "UNKNOWN"}

\* an always-allowed list that shares KILL with the never-allowed list
ALWAYS_ALLOWED_WithKill == {"SELECT", "SHOW", "DESCRIBE", "EXPLAIN", "KILL"}

ALWAYS_ALLOWED_NoExplain == {"SELECT", "SHOW", "DESCRIBE"}

ALWAYS_ALLOWED == {"SELECT", "SHOW", "DESCRIBE", "EXPLAIN"}

NEVER_ALLOWED == {"DROP", "TRUNCATE", "GRANT", "REVOKE", "FLUSH", "KILL", "LOAD_DATA"}

WRITE_MODE_ALLOWED ==
  {"INSERT", "UPDATE", "DELETE", "REPLACE",
   "START_TRANSACTION", "COMMIT", "ROLLBACK", "SAVEPOINT"}

MAX_QUERY_LENGTH == 10000

\* ------------------------------------------------------------ text: chunks
\* the first-token -> kind table of detectQueryType's switch
KeywordTable ==
  "SELECT" :> "SELECT" @@ "INSERT" :> "INSERT" @@ "UPDATE" :> "UPDATE" @@
  "DELETE" :> "DELETE" @@ "REPLACE" :> "REPLACE" @@ "CREATE" :> "CREATE" @@
  "ALTER" :> "ALTER" @@ "DROP" :> "DROP" @@ "TRUNCATE" :> "TRUNCATE" @@
  "START" :> "START_TRANSACTION" @@ "BEGIN" :> "START_TRANSACTION" @@
  "COMMIT" :> "COMMIT" @@ "ROLLBACK" :> "ROLLBACK" @@ "SAVEPOINT" :> "SAVEPOINT" @@
  "GRANT" :> "GRANT" @@ "REVOKE" :> "REVOKE" @@ "FLUSH" :> "FLUSH" @@
  "KILL" :> "KILL" @@ "LOAD" :> "LOAD_DATA" @@ "SHOW" :> "SHOW" @@
  "DESCRIBE" :> "DESCRIBE" @@ "DESC" :> "DESCRIBE" @@ "EXPLAIN" :> "EXPLAIN" @@
  "USE" :> "USE" @@ "SET" :> "SET"

Keywords == DOMAIN KeywordTable

\* words of the inputs with lower-case letters, with their upper-case form
LowerToUpper ==
  "select" :> "SELECT" @@ "Select" :> "SELECT" @@ "delete" :> "DELETE" @@
  "drop" :> "DROP" @@ "with" :> "WITH" @@ "x" :> "X"

\* a word of MAX_QUERY_LENGTH + 1 characters
LongWord == "xx...x"

\* word chunks: runs of [A-Za-z0-9_]
WordChunks == Keywords \cup {"WITH", "X", LongWord} \cup DOMAIN LowerToUpper

\* whitespace characters (\s)
Space == {" ", "\n"}

\* number of characters of a chunk
ChunkLen(c) ==
  IF c \in {"x", "X"} \cup Space \cup {";", "(", ")", "-", "/", "*"} THEN 1
  ELSE IF c = LongWord THEN MAX_QUERY_LENGTH + 1
  ELSE IF c \in {"USE", "SET"} THEN 3
  ELSE IF c \in {"DROP", "drop", "WITH", "with", "KILL", "LOAD", "SHOW", "DESC"} THEN 4
  ELSE IF c \in {"ALTER", "START", "BEGIN", "GRANT", "FLUSH"} THEN 5
  ELSE IF c \in {"SELECT", "select", "Select", "INSERT", "UPDATE", "DELETE", "delete",
                 "CREATE", "COMMIT", "REVOKE"} THEN 6
  ELSE IF c \in {"REPLACE", "EXPLAIN"} THEN 7
  ELSE IF c \in {"TRUNCATE", "ROLLBACK", "DESCRIBE"} THEN 8
  ELSE 9

RECURSIVE StrLen(_)
\* String.length
StrLen(s) == IF s = <<>> THEN 0 ELSE ChunkLen(Head(s)) + StrLen(Tail(s))

\* a toUpperCase that leaves every letter as it is
toUpperCase_KeepsCase(s) == s

\* String.prototype.toUpperCase, chunk by chunk
toUpperCase(s) ==
  [i \in 1..Len(s) |-> IF s[i] \in DOMAIN LowerToUpper THEN LowerToUpper[s[i]] ELSE s[i]]

\* String.prototype.trim
trim(s) ==
  LET nonSpace == {i \in 1..Len(s) : s[i] \notin Space}
  IN  IF nonSpace = {} THEN <<>>
      ELSE LET lo == CHOOSE i \in nonSpace : \A j \in nonSpace : i <= j
               hi == CHOOSE i \in nonSpace : \A j \in nonSpace : j <= i
           IN  SubSeq(s, lo, hi)

\* least element of a non-empty set of integers
Min(S) == CHOOSE i \in S : \A j \in S : i <= j

\* ---------------------------------------------------------- query-parser.ts
RECURSIVE ReplaceLineComments(_, _, _)
\* query.replace(/--[^\n]*/g, rep), scanning from position i
ReplaceLineComments(q, i, rep) ==
  IF i > Len(q) THEN <<>>
  ELSE IF q[i] = "-" /\ i < Len(q) /\ q[i + 1] = "-"
       THEN LET nl == {j \in (i + 2)..Len(q) : q[j] = "\n"}
                next == IF nl = {} THEN Len(q) + 1 ELSE Min(nl)
            IN  rep \o ReplaceLineComments(q, next, rep)
       ELSE <<q[i]>> \o ReplaceLineComments(q, i + 1, rep)

RECURSIVE ReplaceBlockComments(_, _, _)
\* result.replace(/\/\*[\s\S]*?\*\//g, rep), scanning from position i
ReplaceBlockComments(q, i, rep) ==
  IF i > Len(q) THEN <<>>
  ELSE LET close == {j \in (i + 2)..(Len(q) - 1) : q[j] = "*" /\ q[j + 1] = "/"}
       IN  IF q[i] = "/" /\ i < Len(q) /\ q[i + 1] = "*" /\ close # {}
           THEN rep \o ReplaceBlockComments(q, Min(close) + 2, rep)
           ELSE <<q[i]>> \o ReplaceBlockComments(q, i + 1, rep)

removeComments(query) ==
  LET result == ReplaceLineComments(query, 1, <<>>)
  IN  ReplaceBlockComments(result, 1, <<>>)

RECURSIVE CollapseSpaces(_, _)
\* result.replace(/\s+/g, ' '), scanning from position i
CollapseSpaces(q, i) ==
  IF i > Len(q) THEN <<>>
  ELSE IF q[i] \in Space
       THEN LET rest == {j \in (i + 1)..Len(q) : q[j] \notin Space}
                next == IF rest = {} THEN Len(q) + 1 ELSE Min(rest)
            IN  <<" ">> \o CollapseSpaces(q, next)
       ELSE <<q[i]>> \o CollapseSpaces(q, i + 1)

normalizeWhitespace(query) == CollapseSpaces(trim(query), 1)

normalizeQuery(query) == normalizeWhitespace(removeComments(query))

RECURSIVE SplitOn(_, _)
\* String.prototype.split(sep) for a one-character separator
SplitOn(s, sep) ==
  LET at == {i \in 1..Len(s) : s[i] = sep}
  IN  IF at = {} THEN <<s>>
      ELSE <<SubSeq(s, 1, Min(at) - 1)>> \o SplitOn(SubSeq(s, Min(at) + 1, Len(s)), sep)

splitStatements(query) ==
  LET parts == SplitOn(query, ";")
      trimmed == [i \in 1..Len(parts) |-> trim(parts[i])]
  IN  SelectSeq(trimmed, LAMBDA stmt : Len(stmt) > 0)

\* regex \bW\b at position i: chunk i is the whole word W
WholeWord(s, i, W) ==
  /\ s[i] \in W
  /\ (i = 1 \/ s[i - 1] \notin WordChunks)
  /\ (i = Len(s) \/ s[i + 1] \notin WordChunks)

CteKeywords == {"SELECT", "INSERT", "UPDATE", "DELETE"}

\* upper.split(/\s+/)[0]
FirstWord(upper) ==
  LET sp == {i \in 1..Len(upper) : upper[i] \in Space}
  IN  IF sp = {} THEN upper ELSE SubSeq(upper, 1, Min(sp) - 1)

extractFirstKeyword(statement) ==
  LET upper == toUpperCase(statement)
      \* matches of /\bWITH\b[\s\S]*?\b(SELECT|INSERT|UPDATE|DELETE)\b/
      withAt == {i \in 1..Len(upper) :
                   /\ WholeWord(upper, i, {"WITH"})
                   /\ \E j \in (i + 1)..Len(upper) : WholeWord(upper, j, CteKeywords)}
  IN  IF Len(upper) > 0 /\ upper[1] = "WITH" /\ withAt # {}
      THEN LET w == Min(withAt)
               k == Min({j \in (w + 1)..Len(upper) : WholeWord(upper, j, CteKeywords)})
           IN  <<upper[k]>>
      ELSE FirstWord(upper)

detectQueryType_NoDesc(statement) ==
  LET keyword == extractFirstKeyword(statement)
  IN  IF Len(keyword) = 1 /\ keyword[1] \in Keywords \ {"DESC"}
      THEN KeywordTable[keyword[1]]
      ELSE "UNKNOWN"

detectQueryType(statement) ==
  LET keyword == extractFirstKeyword(statement)
  IN  IF Len(keyword) = 1 /\ keyword[1] \in Keywords
      THEN KeywordTable[keyword[1]]
      ELSE "UNKNOWN"

isAllowed_WriteModeAllowsAll(queryType, mode) ==
  IF queryType \in ALWAYS_ALLOWED THEN TRUE
  ELSE IF mode = WRITE_ENABLED THEN TRUE
  ELSE FALSE

isAllowed_IgnoresMode(queryType, mode) ==
  IF queryType \in ALWAYS_ALLOWED THEN TRUE
  ELSE IF queryType \in NEVER_ALLOWED THEN FALSE
  ELSE IF queryType \in WRITE_MODE_ALLOWED THEN TRUE
  ELSE FALSE

isAllowed_DefaultAllow(queryType, mode) ==
  IF queryType \in ALWAYS_ALLOWED THEN TRUE
  ELSE IF queryType \in NEVER_ALLOWED THEN FALSE
  ELSE IF mode = WRITE_ENABLED /\ queryType \in WRITE_MODE_ALLOWED THEN TRUE
  ELSE TRUE

isAllowed_NoExplain(queryType, mode) ==
  IF queryType \in ALWAYS_ALLOWED_NoExplain THEN TRUE
  ELSE IF queryType \in NEVER_ALLOWED THEN FALSE
  ELSE IF mode = WRITE_ENABLED /\ queryType \in WRITE_MODE_ALLOWED THEN TRUE
  ELSE FALSE

isAllowed(queryType, mode) ==
  IF queryType \in ALWAYS_ALLOWED THEN TRUE
  ELSE IF queryType \in NEVER_ALLOWED THEN FALSE
  ELSE IF mode = WRITE_ENABLED /\ queryType \in WRITE_MODE_ALLOWED THEN TRUE
  ELSE FALSE

\* an explainBlocked that tells to enable write mode for DDL too
explainBlocked_HintsForDdl(queryType, mode) ==
  IF queryType \in {"CREATE", "ALTER"}
  THEN <<"DDL operations (", queryType, ") are not allowed in READ-ONLY mode. Set MYSQL_ALLOW_WRITE=true to enable write operations.">>
  ELSE <<queryType, " operations are not allowed.">>

\* Messages are sequences of text pieces; an interpolated ${queryType} is a
\* piece of its own.
explainBlocked(queryType, mode) ==
  IF mode = READ_ONLY
  THEN IF queryType \in {"INSERT", "UPDATE", "DELETE", "REPLACE"}
       THEN <<queryType, " operations are not allowed in READ-ONLY mode. Set MYSQL_ALLOW_WRITE=true to enable write operations.">>
       ELSE IF queryType \in {"START_TRANSACTION", "COMMIT", "ROLLBACK", "SAVEPOINT"}
       THEN <<"Transaction control (", queryType, ") is not allowed in READ-ONLY mode. Set MYSQL_ALLOW_WRITE=true to enable transactions.">>
       ELSE IF queryType \in {"DROP", "TRUNCATE"}
       THEN <<queryType, " operations are dangerous and never allowed for safety. Use MySQL CLI directly for destructive DDL operations.">>
       ELSE IF queryType \in {"CREATE", "ALTER"}
       THEN <<"DDL operations (", queryType, ") are not allowed in READ-ONLY mode.">>
       ELSE IF queryType \in {"GRANT", "REVOKE", "FLUSH", "KILL", "LOAD_DATA"}
       THEN <<"Administrative commands (", queryType, ") are never allowed for security reasons.">>
       ELSE IF queryType = "SET"
       THEN <<"SET operations are not allowed in READ-ONLY mode.">>
       ELSE <<queryType, " operations are not allowed in READ-ONLY mode.">>
  ELSE IF queryType \in {"DROP", "TRUNCATE"}
       THEN <<queryType, " operations are dangerous and blocked even in WRITE mode for safety. Use MySQL CLI directly for destructive DDL operations.">>
       ELSE IF queryType \in {"GRANT", "REVOKE", "FLUSH", "KILL", "LOAD_DATA"}
       THEN <<"Administrative commands (", queryType, ") are never allowed for security reasons.">>
       ELSE IF queryType \in {"CREATE", "ALTER"}
       THEN <<"DDL operations (", queryType, ") are not allowed even in WRITE mode. Use MySQL CLI for schema changes.">>
       ELSE <<queryType, " operations are not recognized or not allowed.">>

\* a suggestFix that suggests enabling write mode wherever it has nothing else
suggestFix_AlwaysSuggests(queryType, mode) ==
  IF queryType = "DROP" \/ queryType = "TRUNCATE"
  THEN <<"For safety, destructive DDL operations must be performed directly using MySQL CLI, not through this MCP server.">>
  ELSE IF queryType \in NEVER_ALLOWED
  THEN <<"Administrative commands are never allowed through this MCP server for security reasons.">>
  ELSE <<"To enable write operations, set the environment variable: MYSQL_ALLOW_WRITE=true">>

suggestFix(queryType, mode) ==
  IF mode = READ_ONLY
  THEN IF queryType \in WRITE_MODE_ALLOWED
       THEN <<"To enable write operations, set the environment variable: MYSQL_ALLOW_WRITE=true">>
       ELSE IF queryType = "DROP" \/ queryType = "TRUNCATE"
       THEN <<"For safety, destructive DDL operations must be performed directly using MySQL CLI, not through this MCP server.">>
       ELSE IF queryType \in NEVER_ALLOWED
       THEN <<"Administrative commands are never allowed through this MCP server for security reasons.">>
       ELSE <<>>
  ELSE IF queryType = "DROP" \/ queryType = "TRUNCATE"
       THEN <<"Even in WRITE mode, destructive DDL operations are blocked. Use MySQL CLI directly for these operations.">>
       ELSE IF queryType \in NEVER_ALLOWED
       THEN <<"Administrative commands are never allowed through this MCP server, regardless of mode.">>
       ELSE <<>>

\* ------------------------------------------------------------------ logger.ts
LOG_QUERY_TRUNCATE_LENGTH == 200

RECURSIVE Substring0(_, _)
\* str.substring(0, maxLength), cut at the last chunk that still fits
Substring0(str, maxLength) ==
  IF str = <<>> \/ ChunkLen(Head(str)) > maxLength THEN <<>>
  ELSE <<Head(str)>> \o Substring0(Tail(str), maxLength - ChunkLen(Head(str)))

truncateForLog(str, maxLength) ==
  IF StrLen(str) <= maxLength THEN str
  ELSE Substring0(str, maxLength) \o <<"...">>

\* the audit line logQuery writes to stderr
logQuery(query, mode, allowed, queryType) ==
  [ status |-> IF allowed THEN "EXECUTED" ELSE "BLOCKED",
    mode |-> mode,
    queryType |-> queryType,
    query |-> truncateForLog(query, LOG_QUERY_TRUNCATE_LENGTH) ]

\* ------------------------------------------------- query-parser.ts: parseQuery
RECURSIVE CheckEach(_, _, _, _)
\* the for loop of parseQuery from statement i on; written is the audit
\* lines written so far.  Returns the ParseResult and the audit lines.
CheckEach(statements, i, mode, written) ==
  IF i > Len(statements)
  THEN [ result |-> [queryType |-> detectQueryType(statements[1]), allowed |-> TRUE],
         log |-> written ]
  ELSE LET queryType == detectQueryType(statements[i])
           allowed == isAllowed(queryType, mode)
           logged == Append(written, logQuery(statements[i], mode, allowed, queryType))
       IN  IF ~allowed
           THEN [ result |-> [ queryType |-> queryType,
                               allowed |-> FALSE,
                               reason |-> explainBlocked(queryType, mode),
                               suggestion |-> suggestFix(queryType, mode) ],
                  log |-> logged ]
           ELSE CheckEach(statements, i + 1, mode, logged)

parseQueryRun_FirstOnly(query, mode) ==
  LET statements == splitStatements(normalizeQuery(query))
  IN  IF Len(statements) = 0
      THEN [ result |-> [ queryType |-> "UNKNOWN", allowed |-> FALSE,
                          reason |-> <<"Empty or invalid query">>,
                          suggestion |-> <<"Please provide a valid SQL query.">> ],
             log |-> <<>> ]
      ELSE CheckEach(<<statements[1]>>, 1, mode, <<>>)

parseQueryRun_ReportsFirstKind(query, mode) ==
  LET statements == splitStatements(normalizeQuery(query))
      run == CheckEach(statements, 1, mode, <<>>)
  IN  IF Len(statements) = 0
      THEN [ result |-> [ queryType |-> "UNKNOWN", allowed |-> FALSE,
                          reason |-> <<"Empty or invalid query">>,
                          suggestion |-> <<"Please provide a valid SQL query.">> ],
             log |-> <<>> ]
      ELSE [run EXCEPT !.result.queryType = detectQueryType(statements[1])]

\* parseQuery with its side effect: the ParseResult and the audit lines
parseQueryRun(query, mode) ==
  LET normalized == normalizeQuery(query)
      statements == splitStatements(normalized)
  IN  IF Len(statements) = 0
      THEN [ result |-> [ queryType |-> "UNKNOWN", allowed |-> FALSE,
                          reason |-> <<"Empty or invalid query">>,
                          suggestion |-> <<"Please provide a valid SQL query.">> ],
             log |-> <<>> ]
      ELSE CheckEach(statements, 1, mode, <<>>)

parseQuery(query, mode) == parseQueryRun(query, mode).result

\* --------------------------------------------------------- error-handlers.ts
\* message pieces that contain the substring 'timeout'
HasTimeout ==
  { "timeout", "Query execution timeout exceeded (", "Query inactivity timeout",
    "Lock wait timeout exceeded; try restarting transaction",
    "Unknown column 'timeout' in 'field list'" }

\* message pieces that contain the substring 'ETIMEDOUT'
HasETIMEDOUT == {"connect ETIMEDOUT"}

\* String.prototype.includes over a text given as pieces: Texts are the
\* pieces that contain the substring looked for
includes(message, Texts) == \E i \in 1..Len(message) : message[i] \in Texts

\* A thrown Error: name is the constructor's name ("Error", "ZodError"),
\* code the error code ("" when the value has no string code), message the
\* text pieces, sqlMessage and sql the fields a server error carries (<<>>
\* when absent).
ErrorValue(name, code, message) ==
  [name |-> name, code |-> code, message |-> message, sqlMessage |-> <<>>, sql |-> <<>>]

isMySQLError(error) == error.code # ""

isTimeoutError(error) ==
  includes(error.message, HasTimeout) \/ includes(error.message, HasETIMEDOUT)

handleTimeoutError(queryTimeout) ==
  << "**Error: Query execution timeout**",
     "The query exceeded the timeout limit of ", ToString(queryTimeout), "ms.",
     "**Suggestions to resolve:**",
     "- Increase MYSQL_QUERY_TIMEOUT environment variable if necessary" >>

handleValidationError(error) ==
  <<"**Input validation error**", "The following validation errors occurred:">>
  \o error.message

handleUnknownError(error) ==
  <<"**Error: ", error.name, "**">> \o error.message

\* ${mysqlError.sqlMessage || fallback}
SqlMessageOr(error, fallback) ==
  IF error.sqlMessage # <<>> THEN error.sqlMessage ELSE <<fallback>>

\* the text of each case of the switch on mysqlError.code: its title, its
\* description, and the first line of its fixed list of suggestions (every
\* line for the access-denied case)
handleMySQLError(error) ==
  IF ~isMySQLError(error) THEN handleUnknownError(error)
  ELSE LET code == error.code
           suggestions == <<"**Suggestions:**">>
       IN
    CASE code = "ER_NO_SUCH_TABLE" ->
           <<"**Error: Table does not exist**">>
           \o SqlMessageOr(error, "The specified table was not found.")
           \o suggestions \o <<"- Verify the table name is spelled correctly">>
      [] code = "ER_BAD_DB_ERROR" ->
           <<"**Error: Database does not exist**">>
           \o SqlMessageOr(error, "The specified database was not found.")
           \o suggestions \o <<"- Verify the database name is spelled correctly">>
      [] code \in {"ER_ACCESS_DENIED_ERROR", "ER_TABLEACCESS_DENIED_ERROR",
                   "ER_DBACCESS_DENIED_ERROR"} ->
           <<"**Error: Access denied**">>
           \o SqlMessageOr(error, "You do not have permission for this operation.")
           \o <<"Your MySQL user account does not have the required permissions for this operation.">>
           \o suggestions
           \o << "- Contact your database administrator to grant appropriate permissions",
                 "- Verify you're connecting with the correct MySQL user account",
                 "- Check that your user has been granted access to the specific database/table" >>
      [] code \in {"ER_PARSE_ERROR", "ER_SYNTAX_ERROR"} ->
           <<"**Error: SQL syntax error**">>
           \o SqlMessageOr(error, "There is an error in your SQL syntax.")
           \o suggestions
      [] code = "ER_DUP_ENTRY" ->
           <<"**Error: Duplicate entry**">>
           \o SqlMessageOr(error, "A duplicate value was found.")
           \o suggestions
      [] code \in {"ER_NO_REFERENCED_ROW", "ER_NO_REFERENCED_ROW_2"} ->
           <<"**Error: Foreign key constraint violation**">>
           \o SqlMessageOr(error, "Referenced row does not exist.")
           \o suggestions
      [] code \in {"ER_ROW_IS_REFERENCED", "ER_ROW_IS_REFERENCED_2"} ->
           <<"**Error: Cannot delete or update**">>
           \o SqlMessageOr(error, "Row is referenced by other records.")
           \o suggestions
      [] code = "ER_LOCK_WAIT_TIMEOUT" ->
           << "**Error: Lock wait timeout exceeded**",
              "The query waited too long to acquire a table lock." >>
           \o suggestions
      [] code = "ER_LOCK_DEADLOCK" ->
           <<"**Error: Deadlock detected**">>
           \o SqlMessageOr(error, "A deadlock was detected and the transaction was rolled back.")
           \o suggestions
      [] code = "ER_TOO_MANY_CONNECTIONS" ->
           << "**Error: Too many connections**",
              "The MySQL server has reached its connection limit." >>
           \o suggestions
      [] code = "ECONNREFUSED" ->
           << "**Error: Connection refused**", "Unable to connect to the MySQL server." >>
           \o suggestions \o <<"- Check that MYSQL_HOST and MYSQL_PORT are correct">>
      [] code \in {"PROTOCOL_CONNECTION_LOST", "ECONNRESET"} ->
           << "**Error: Connection lost**", "The connection to the MySQL server was lost." >>
           \o suggestions
      [] OTHER ->
           <<"**MySQL Error (", code, ")**">>
           \o SqlMessageOr(error, "An error occurred while executing the query.")
           \o (IF error.sql # <<>> THEN <<"**Query:**">> \o error.sql ELSE <<>>)
           \o <<"If this error persists, consult the MySQL documentation or contact your database administrator.">>

handleQueryError(error, queryTimeout) ==
  IF isTimeoutError(error) THEN handleTimeoutError(queryTimeout)
  ELSE IF error.name = "ZodError" THEN handleValidationError(error)
  ELSE IF isMySQLError(error) THEN handleMySQLError(error)
  ELSE handleUnknownError(error)

\* ------------------------------------------------------------ tool-schemas.ts
ResponseFormats == {"markdown", "json"}

\* the issues QueryInputSchema.parse(args) reports, each as its path and its
\* message; empty when args are valid. args.extra are the keys of args the
\* schema does not declare.
QueryInputSchema(args) ==
  (IF StrLen(args.query) < 1 THEN <<"query", "Query cannot be empty">> ELSE <<>>)
  \o (IF StrLen(args.query) > MAX_QUERY_LENGTH
      THEN <<"query", "Query cannot exceed 10000 characters">> ELSE <<>>)
  \o (IF args.response_format \notin ResponseFormats \cup {"absent"}
      THEN <<"response_format", "Invalid enum value. Expected 'markdown' | 'json', received ",
             args.response_format>>
      ELSE <<>>)
  \o (IF args.extra # <<>>
      THEN <<"", "Unrecognized key(s) in object: ">> \o args.extra ELSE <<>>)

\* -------------------------------------------------------------- formatters.ts
CHARACTER_LIMIT == 25000

\* number of characters of the fixed part of the truncation warning: the
\* template literal without its two interpolated numbers
WarningLiteralLength == 398

RECURSIVE Digits(_)
\* number of characters of `${n}` for a length n
Digits(n) == IF n < 10 THEN 1 ELSE 1 + Digits(n \div 10)

\* the warning applyCharacterLimit builds for a response of the given length:
\* the limit and the original length it states, and its own length
Warning(responseLength) ==
  [ limit |-> CHARACTER_LIMIT,
    original |-> responseLength,
    length |-> WarningLiteralLength + Digits(CHARACTER_LIMIT) + Digits(responseLength) ]

\* response.substring(0, end): the number of characters it keeps
Substring(response, end) == IF end < response.length THEN end ELSE response.length

\* the returned string: the leading characters kept of the response, then the
\* warning (<<>> when none is appended)
Limited(response, kept, warning) == [text |-> response, kept |-> kept, warning |-> warning]

\* String.length of a returned string
LimitedLength(out) ==
  out.kept + (IF out.warning = <<>> THEN 0 ELSE out.warning[1].length)

\* an applyCharacterLimit that always appends the warning to the first
\* CHARACTER_LIMIT characters
applyCharacterLimit_NoRoom(response, includeWarning) ==
  IF response.length <= CHARACTER_LIMIT THEN Limited(response, response.length, <<>>)
  ELSE IF ~includeWarning THEN Limited(response, Substring(response, CHARACTER_LIMIT), <<>>)
  ELSE Limited(response, Substring(response, CHARACTER_LIMIT), <<Warning(response.length)>>)

\* an applyCharacterLimit whose warning states the limit as the original length
applyCharacterLimit_StatesLimit(response, includeWarning) ==
  IF response.length <= CHARACTER_LIMIT THEN Limited(response, response.length, <<>>)
  ELSE IF ~includeWarning THEN Limited(response, Substring(response, CHARACTER_LIMIT), <<>>)
  ELSE Limited(response,
               Substring(response, CHARACTER_LIMIT - Warning(CHARACTER_LIMIT).length),
               <<Warning(CHARACTER_LIMIT)>>)

applyCharacterLimit(response, includeWarning) ==
  IF response.length <= CHARACTER_LIMIT THEN Limited(response, response.length, <<>>)
  ELSE LET truncated == Substring(response, CHARACTER_LIMIT)
       IN  IF ~includeWarning THEN Limited(response, truncated, <<>>)
           ELSE LET warning == Warning(response.length)
                    maxContentLength == CHARACTER_LIMIT - warning.length
                IN  IF maxContentLength > 0 /\ truncated > maxContentLength
                    THEN Limited(response, Substring(response, maxContentLength), <<warning>>)
                    ELSE Limited(response, truncated, <<warning>>)

\* formatAsJSON: the format and shape of the rendering, the truncated flag
\* its metadata states, and its length (given by the data rendered)
formatAsJSON(result, length) ==
  [ format |-> "json", shape |-> result.shape,
    truncated |-> <<result.truncated>>, length |-> length ]

\* formatAsMarkdown: the rendering states no truncated flag
formatAsMarkdown(result, length) ==
  [format |-> "markdown", shape |-> result.shape, truncated |-> <<>>, length |-> length]

\* ------------------------------------------------------------------- inputs
RECURSIVE Flatten(_)
\* the text made of a sequence of input atoms
Flatten(atoms) == IF atoms = <<>> THEN <<>> ELSE Head(atoms) \o Flatten(Tail(atoms))

TextsOver(Atoms, maxLen) == {Flatten(a) : a \in UNION {[1..n -> Atoms] : n \in 0..maxLen}}

\* common table expressions
CteAtoms == {<<"WITH">>, <<"SELECT">>, <<"DELETE">>, <<"(">>, <<")">>, <<" ">>}

\* batches of statements
BatchAtoms == {<<"SELECT">>, <<"DELETE">>, <<"DROP">>, <<"x">>, <<";">>, <<" ">>}

\* comments
CommentAtoms ==
  {<<"select">>, <<"drop">>, <<"/", "*">>, <<"*", "/">>, <<"-">>, <<"\n">>, <<";">>}

\* every keyword of the table, and some words outside it, as a statement
KeywordTexts ==
  LET words == Keywords \cup {"WITH", "x", "select", "Select", "with"}
  IN  {<<w>> : w \in words} \cup {<<w, " ", "x">> : w \in words}
      \cup {<<w, "(", "x", ")">> : w \in words}

Queries ==
  TextsOver(CteAtoms, MaxCteLen) \cup TextsOver(BatchAtoms, MaxBatchLen)
  \cup TextsOver(CommentAtoms, MaxCommentLen) \cup KeywordTexts

\* argument objects: every query in the default format, and a few queries
\* with each format, with and without an unrecognized key
ArgsSet ==
  {[query |-> q, response_format |-> "absent", extra |-> <<>>] : q \in Queries}
  \cup [ query : {<<>>, <<"SELECT", " ", "x">>, <<"DROP", " ", "x">>},
         response_format : ResponseFormats \cup {"xml"},
         extra : {<<>>, <<"limit">>, <<"timeout">>} ]

\* a key of LongKeyLen characters
LongKey == "kk...k"

\* argument objects of the runs that vary the environment: a few queries,
\* every way the arguments can fail the schema
EnvArgs ==
  [ query : { <<>>, <<"SELECT", " ", "x">>, <<"DROP", " ", "x">>,
              <<"INSERT", " ", "x">>, <<"SELECT", " ", LongWord>>,
              <<"BEGIN">>, <<"COMMIT">> },
    response_format : ResponseFormats \cup {"absent", "xml", "timeout"},
    extra : {<<>>, <<"limit">>, <<"timeout">>, <<LongKey>>} ]

\* ------------------------------------------------------------ config-loader.ts
\* String.prototype.toLowerCase on the values the variable is given
LowerCased ==
  "TRUE" :> "true" @@ "True" :> "true" @@ "tRUE" :> "true" @@
  "FALSE" :> "false" @@ "YES" :> "yes" @@ " TRUE" :> " true"

toLowerCase(s) == IF s \in DOMAIN LowerCased THEN LowerCased[s] ELSE s

\* a parseBoolean that compares the value as it is written
parseBoolean_AsWritten(value, defaultValue) ==
  IF value = <<>> \/ value = <<"">> THEN defaultValue ELSE value[1] = "true"

\* parseBoolean: value is <<>> (undefined) or <<the text of the variable>>;
\* undefined and the empty text are falsy
parseBoolean(value, defaultValue) ==
  IF value = <<>> \/ value = <<"">> THEN defaultValue ELSE toLowerCase(value[1]) = "true"

\* loadConfig: the operation mode read from MYSQL_ALLOW_WRITE
loadConfig(allowWriteEnv) ==
  IF parseBoolean(allowWriteEnv, FALSE) THEN WRITE_ENABLED ELSE READ_ONLY

\* values of MYSQL_ALLOW_WRITE in the environment of the process
AllowWriteValues ==
  { <<>>, <<"">>, <<"true">>, <<"TRUE">>, <<"True">>, <<"tRUE">>, <<"false">>,
    <<"FALSE">>, <<"1">>, <<"yes">>, <<"YES">>, <<" true">>, <<" TRUE">>, <<"on">> }

\* the variable unset and set to true
CoreAllowWrite == {<<>>, <<"true">>}

\* configured query timeout (DEFAULT_QUERY_TIMEOUT)
QueryTimeout == 30000

\* configured credentials (MYSQL_USER, MYSQL_PASSWORD)
Users == {"app_user", "report_user"}
Passwords == {"s3cret", "hunter2"}
Credentials == [user : Users, password : Passwords]
DefaultCredentials == [user |-> "app_user", password |-> "s3cret"]

\* lengths of the rendering of a row set
RenderedLengths == {120, CHARACTER_LIMIT, CHARACTER_LIMIT + 1, 40000}

\* What the database does with a query: kind is "rows" (a set of count rows,
\* whose rendering has the given length), "ok" (an OkPacket with
\* affectedRows = count), "error" (pool.query
\* rejects with an error of the given code and message; server tells whether
\* the error comes from the server and so carries sqlMessage and sql) or
\* "silent" (no answer before the query timeout).
Fate(kind, code, message, server, length, count) ==
  [ kind |-> kind, code |-> code, message |-> message, server |-> server,
    length |-> length, count |-> count ]

NoFate == Fate("none", "", <<>>, FALSE, 0, 0)

ServerError(code, message) == Fate("error", code, message, TRUE, 0, 0)

SystemError(code, message) == Fate("error", code, message, FALSE, 0, 0)

\* the errors of the MySQL server and of the connection, with the message
\* the server or the socket gives them
DbErrors(user) ==
  { ServerError("ER_NO_SUCH_TABLE", <<"Table 'db.x' doesn't exist">>),
    ServerError("ER_BAD_DB_ERROR", <<"Unknown database 'db'">>),
    ServerError("ER_ACCESS_DENIED_ERROR",
                <<"Access denied for user '", user, "'@'localhost' (using password: YES)">>),
    ServerError("ER_TABLEACCESS_DENIED_ERROR",
                <<"SELECT command denied to user '", user, "'@'localhost' for table 'x'">>),
    ServerError("ER_DBACCESS_DENIED_ERROR",
                <<"Access denied for user '", user, "'@'localhost' to database 'db'">>),
    ServerError("ER_PARSE_ERROR", <<"You have an error in your SQL syntax">>),
    ServerError("ER_SYNTAX_ERROR", <<"You have an error in your SQL syntax">>),
    ServerError("ER_DUP_ENTRY", <<"Duplicate entry 'x' for key 'PRIMARY'">>),
    ServerError("ER_NO_REFERENCED_ROW", <<"Cannot add or update a child row">>),
    ServerError("ER_NO_REFERENCED_ROW_2", <<"Cannot add or update a child row">>),
    ServerError("ER_ROW_IS_REFERENCED", <<"Cannot delete or update a parent row">>),
    ServerError("ER_ROW_IS_REFERENCED_2", <<"Cannot delete or update a parent row">>),
    ServerError("ER_LOCK_WAIT_TIMEOUT",
                <<"Lock wait timeout exceeded; try restarting transaction">>),
    ServerError("ER_LOCK_DEADLOCK",
                <<"Deadlock found when trying to get lock; try restarting transaction">>),
    ServerError("ER_TOO_MANY_CONNECTIONS", <<"Too many connections">>),
    ServerError("ER_BAD_FIELD_ERROR", <<"Unknown column 'x' in 'field list'">>),
    ServerError("ER_BAD_FIELD_ERROR", <<"Unknown column 'timeout' in 'field list'">>),
    SystemError("ECONNREFUSED", <<"connect ECONNREFUSED">>),
    SystemError("PROTOCOL_CONNECTION_LOST", <<"Connection lost: The server closed the connection.">>),
    SystemError("ECONNRESET", <<"read ECONNRESET">>),
    SystemError("ETIMEDOUT", <<"connect ETIMEDOUT">>),
    SystemError("", <<"Pool is closed.">>) }

\* everything the database can do with a query
AllFates(user) ==
  {Fate("rows", "", <<>>, FALSE, n, n \div 100) : n \in RenderedLengths}
  \cup {Fate("rows", "", <<>>, FALSE, 120, 0)}
  \cup {Fate("ok", "", <<>>, FALSE, 120, n) : n \in {0, 3}}
  \cup {Fate("silent", "", <<>>, FALSE, 0, 0)}
  \cup DbErrors(user)

\* the fates tried with every query
CoreFates == {Fate("rows", "", <<>>, FALSE, 120, 1), Fate("silent", "", <<>>, FALSE, 0, 0)}

\* lengths of the texts given to applyCharacterLimit on its own
LimitLengths ==
  {0, 40000, 99999, 100000, 1000000}
  \cup ((CHARACTER_LIMIT - LenSpan)..(CHARACTER_LIMIT + LenSpan))

\* ---------------------------------------------------------------------- state
VARIABLES
  env,          \* <<>> or <<the value of MYSQL_ALLOW_WRITE at start-up>>
  mode,         \* QueryExecutor.operationMode, fixed at start-up
  credentials,  \* the configured user and password, fixed at start-up
  pc,           \* position of the request: "idle", "queued" (pool.query is
                \* waiting for a connection), "awaiting" (the query is on a
                \* connection), "returned", "raised"
  args,         \* the arguments of the request being handled
  parseResult,  \* <<>> or <<the ParseResult parseQuery returned>>
  log,          \* audit lines written by the request
  dbSql,        \* the sql texts passed to pool.query by the request
  busy,         \* connections of the pool held by queries of other requests
  ahead,        \* queries of other requests queued before this request's
  dbFate,       \* what the database does with the query of the request
  result,       \* <<>> or <<the QueryResult formatResult built>>
  rendered,     \* <<>> or <<the text and flag given to applyCharacterLimit>>
  limited,      \* <<>> or <<what applyCharacterLimit returned>>
  response,     \* <<>> or <<the content item returned>>
  openTx        \* pooled connections whose session has an open transaction

vars ==
  << env, mode, credentials, pc, args, parseResult, log, dbSql, busy, ahead, dbFate,
     result, rendered, limited, response, openTx >>

\* the variables of one request
request == <<pc, args, parseResult, log, dbSql, dbFate, result, rendered, limited, response>>

NoArgs == [query |-> <<>>, response_format |-> "absent", extra |-> <<>>]

\* no request in progress
Idle ==
  /\ pc = "idle"
  /\ args = NoArgs
  /\ parseResult = <<>>
  /\ log = <<>>
  /\ dbSql = <<>>
  /\ ahead = 0
  /\ dbFate = NoFate
  /\ result = <<>>
  /\ rendered = <<>>
  /\ limited = <<>>
  /\ response = <<>>

Init ==
  /\ env \in CoreAllowWrite
  /\ mode = loadConfig(env)
  /\ credentials = DefaultCredentials
  /\ busy = 0
  /\ openTx = 0
  /\ Idle

TextContent(text) == <<[type |-> "text", text |-> text]>>

\* ---------------------------------------------------------- query-executor.ts
\* an executor that hands the query to the client whatever the verdict
ExecutorBegin_NoAllowedCheck(query, operationMode) ==
  LET run == parseQueryRun(query, operationMode)
  IN  [parseResult |-> run.result, log |-> run.log, thrown |-> <<>>, sql |-> <<query>>]

\* an executor whose parser keeps state between calls: while queries of other
\* requests are in flight it answers with the verdict of the strictest mode
ExecutorBegin_SharedParser(query, operationMode) ==
  LET run == parseQueryRun(query, IF busy > 0 THEN READ_ONLY ELSE operationMode)
  IN  IF ~run.result.allowed
      THEN [ parseResult |-> run.result,
             log |-> run.log,
             thrown |-> <<ErrorValue("Error", "",
                            <<"Query blocked: ">> \o run.result.reason \o run.result.suggestion)>>,
             sql |-> <<>> ]
      ELSE [parseResult |-> run.result, log |-> run.log, thrown |-> <<>>, sql |-> <<query>>]

\* QueryExecutor.executeQuery up to its await: the verdict, the audit lines,
\* the error thrown (if any) and the sql handed to MySQLClient.executeQuery
ExecutorBegin(query, operationMode) ==
  LET run == parseQueryRun(query, operationMode)
  IN  IF ~run.result.allowed
      THEN [ parseResult |-> run.result,
             log |-> run.log,
             thrown |-> <<ErrorValue("Error", "",
                            <<"Query blocked: ">> \o run.result.reason \o run.result.suggestion)>>,
             sql |-> <<>> ]
      ELSE [parseResult |-> run.result, log |-> run.log, thrown |-> <<>>, sql |-> <<query>>]

\* the catch of QueryExecutor.executeQuery: the execution time is added to
\* the message and the error is thrown again
ExecutorCatch(error) ==
  [error EXCEPT !.message = @ \o <<" (execution time: ", "ms)">>]

\* The first element of what pool.query resolves to: an array of count rows
\* (RowDataPacket[]) or an OkPacket with affectedRows = count
NativeRows(fate) ==
  [isArray |-> fate.kind = "rows", hasAffectedRows |-> fate.kind = "ok", count |-> fate.count]

\* a QueryResult: an absent field is <<>>, rows holds the number of row arrays
QueryResult(shape, columns, rows, affectedRows, rowCount) ==
  [ shape |-> shape, columns |-> columns, rows |-> rows, affectedRows |-> affectedRows,
    rowCount |-> rowCount, truncated |-> FALSE ]

\* a formatResult without the branch for OkPackets
formatResult_NoOkBranch(rows) ==
  IF rows.isArray /\ rows.count >= 0 /\ ~rows.hasAffectedRows
  THEN QueryResult("tabular", <<"columns">>, <<rows.count>>, <<>>, rows.count)
  ELSE QueryResult("empty", <<>>, <<>>, <<>>, 0)

\* QueryExecutor.formatResult, branch by branch; truncated is false in every
\* branch
formatResult(rows) ==
  IF rows.isArray /\ rows.count >= 0 /\ ~rows.hasAffectedRows
  THEN QueryResult("tabular", <<"columns">>, <<rows.count>>, <<>>, rows.count)
  ELSE IF rows.hasAffectedRows
  THEN QueryResult("ack", <<>>, <<>>, <<rows.count>>, rows.count)
  ELSE IF rows.isArray /\ rows.count > 0
  THEN QueryResult("tabular", <<"columns">>, <<rows.count>>, <<>>, rows.count)
  ELSE QueryResult("empty", <<>>, <<>>, <<>>, 0)

\* ------------------------------------------------------------- mysql-client.ts
\* a pool.query that sets no timer for the query
PoolSettles_NoTimer(fate, queryTimeout) == fate.kind # "silent"

\* pool.query({ sql, timeout }) settles: with the answer of the database, or
\* when the timer of the query expires
PoolSettles(fate, queryTimeout) == fate.kind # "silent" \/ queryTimeout > 0

\* What the statement pool.query ran does to the session of its connection,
\* which goes back to the pool as it is: inTx tells whether the session had
\* an open transaction when the statement started
SessionAfter(inTx, queryType) ==
  IF queryType = "START_TRANSACTION" THEN TRUE
  ELSE IF queryType \in {"COMMIT", "ROLLBACK"} THEN FALSE
  ELSE inTx

\* the error pool.query rejects with
PoolError(fate, sql) ==
  IF fate.kind = "silent"
  THEN [ErrorValue("Error", "PROTOCOL_SEQUENCE_TIMEOUT", <<"Query inactivity timeout">>)
          EXCEPT !.sql = sql]
  ELSE IF fate.server
  THEN [ErrorValue("Error", fate.code, fate.message)
          EXCEPT !.sqlMessage = fate.message, !.sql = sql]
  ELSE ErrorValue("Error", fate.code, fate.message)

\* the catch of MySQLClient.executeQuery
ClientCatch(error, queryTimeout) ==
  IF includes(error.message, HasTimeout)
  THEN ErrorValue("Error", "",
         <<"Query execution timeout exceeded (", ToString(queryTimeout), "ms)">>)
  ELSE error

\* ---------------------------------------------------------------- query-tool.ts
\* a handler whose catch lets the error out
HandlerCatch_Rethrows(error, queryTimeout) == [pc |-> "raised", response |-> <<>>]

\* the catch of handleQueryTool: the error is translated and returned as the
\* one content item
HandlerCatch(error, queryTimeout) ==
  [pc |-> "returned", response |-> TextContent(handleQueryError(error, queryTimeout))]

\* the pieces of the text returned on success
ResultText(out) ==
  <<"result", out.text.format, out.text.shape>>
  \o (IF out.warning = <<>> THEN <<>>
      ELSE <<"**Response Truncated**", "Original length was ", ToString(out.warning[1].original)>>)

\* handleQueryTool after a successful await: formatting and truncation
HandlerSuccess(a, fate) ==
  LET queryResult == formatResult(NativeRows(fate))
      formatted == IF a.response_format = "json"
                   THEN formatAsJSON(queryResult, fate.length)
                   ELSE formatAsMarkdown(queryResult, fate.length)
      finalResponse == applyCharacterLimit(formatted, TRUE)
  IN  [ result |-> <<queryResult>>,
        rendered |-> <<[text |-> formatted, includeWarning |-> TRUE]>>,
        limited |-> <<finalResponse>>,
        response |-> TextContent(ResultText(finalResponse)) ]

\* handleQueryTool up to the call of pool.query, which waits behind n queries
\* of other requests when every connection is taken
HandleQueryTool(a, n) ==
  /\ args' = a
  /\ \E issues \in {QueryInputSchema(a)} :
       IF issues # <<>>
       THEN /\ \E caught \in {HandlerCatch(ErrorValue("ZodError", "", issues), QueryTimeout)} :
                 response' = caught.response /\ pc' = caught.pc
            /\ UNCHANGED <<parseResult, log, dbSql, ahead>>
       ELSE \E begin \in {ExecutorBegin(a.query, mode)} :
              /\ parseResult' = <<begin.parseResult>>
              /\ log' = begin.log
              /\ dbSql' = begin.sql
              /\ IF begin.thrown # <<>>
                 THEN /\ \E caught \in {HandlerCatch(begin.thrown[1], QueryTimeout)} :
                           response' = caught.response /\ pc' = caught.pc
                      /\ ahead' = ahead
                 ELSE /\ response' = <<>>
                      /\ pc' = "queued"
                      /\ ahead' = n
  /\ UNCHANGED <<env, mode, credentials, openTx, busy, dbFate, result, rendered, limited>>

\* the pool gives the query a connection; the database then does fate with it
Acquire(fate) ==
  /\ ahead = 0
  /\ busy < PoolSize
  /\ pc' = "awaiting"
  /\ dbFate' = fate
  /\ UNCHANGED <<env, mode, credentials, openTx, args, parseResult, log, dbSql, busy, ahead,
                 result, rendered, limited, response>>

\* pool.query settles and handleQueryTool runs to its return
DbRespond ==
  /\ PoolSettles(dbFate, QueryTimeout)
  /\ \E inTx \in BOOLEAN :
       /\ inTx => openTx > 0
       /\ ~inTx => openTx < PoolSize
       /\ \E after \in {IF dbFate.kind = "ok" /\ Len(log) = 1
                         THEN SessionAfter(inTx, parseResult[1].queryType)
                         ELSE inTx} :
            openTx' = openTx - (IF inTx THEN 1 ELSE 0) + (IF after THEN 1 ELSE 0)
  /\ IF dbFate.kind \in {"rows", "ok"}
     THEN \E done \in {HandlerSuccess(args, dbFate)} :
            /\ result' = done.result
            /\ rendered' = done.rendered
            /\ limited' = done.limited
            /\ response' = done.response
            /\ pc' = "returned"
     ELSE \E caught \in {HandlerCatch(
                           ExecutorCatch(ClientCatch(PoolError(dbFate, dbSql[1]), QueryTimeout)),
                           QueryTimeout)} :
            /\ response' = caught.response
            /\ pc' = caught.pc
            /\ UNCHANGED <<result, rendered, limited>>
  /\ UNCHANGED <<env, mode, credentials, args, parseResult, log, dbSql, busy, ahead, dbFate>>

\* the pipeline instance is discarded after the request
Discard ==
  /\ pc = "returned"
  /\ pc' = "idle"
  /\ args' = NoArgs
  /\ parseResult' = <<>>
  /\ log' = <<>>
  /\ dbSql' = <<>>
  /\ ahead' = 0
  /\ dbFate' = NoFate
  /\ result' = <<>>
  /\ rendered' = <<>>
  /\ limited' = <<>>
  /\ response' = <<>>
  /\ UNCHANGED <<env, mode, credentials, openTx, busy>>

\* a query of another request, queued before this request's, gets a connection
OtherAcquire ==
  /\ ahead > 0
  /\ busy < PoolSize
  /\ ahead' = ahead - 1
  /\ busy' = busy + 1
  /\ UNCHANGED <<env, mode, credentials, openTx, pc, args, parseResult, log, dbSql, dbFate,
                 result, rendered, limited, response>>

\* a query of another request gets a free connection; while this request's
\* query is queued, later queries wait behind it
OtherStart ==
  /\ pc # "queued"
  /\ busy + (IF pc = "awaiting" THEN 1 ELSE 0) < PoolSize
  /\ busy' = busy + 1
  /\ UNCHANGED <<env, mode, credentials, openTx, request, ahead>>

\* a query of another request settles and its connection is released
OtherRelease ==
  /\ busy > 0
  /\ busy' = busy - 1
  /\ UNCHANGED <<env, mode, credentials, openTx, request, ahead>>

\* applyCharacterLimit applied to the text given
ApplyLimit ==
  /\ rendered # <<>>
  /\ limited = <<>>
  /\ limited' = <<applyCharacterLimit(rendered[1].text, rendered[1].includeWarning)>>
  /\ UNCHANGED <<env, mode, credentials, openTx, pc, args, parseResult, log, dbSql, busy, ahead,
                 dbFate, result, rendered, response>>

\* requests handled one at a time
Next ==
  \/ pc = "idle" /\ \E a \in ArgsSet : HandleQueryTool(a, 0)
  \/ pc = "queued" /\ \E fate \in CoreFates : Acquire(fate)
  \/ pc = "awaiting" /\ DbRespond
  \/ Discard

Spec == Init /\ [][Next]_vars

\* requests that share the pool with the queries of other requests, under
\* every configuration of the credentials and every fate of the query
InitEnv ==
  /\ env \in CoreAllowWrite
  /\ mode = loadConfig(env)
  /\ credentials \in Credentials
  /\ busy \in 0..PoolSize
  /\ openTx = 0
  /\ Idle

Arrive ==
  /\ pc = "idle"
  /\ \E a \in EnvArgs : \E n \in 0..MaxAhead :
       /\ n > 0 => busy = PoolSize
       /\ HandleQueryTool(a, n)

Connect == pc = "queued" /\ \E fate \in AllFates(credentials.user) : Acquire(fate)

Settle == pc = "awaiting" /\ DbRespond

NextEnv == Arrive \/ Connect \/ Settle \/ Discard \/ OtherAcquire \/ OtherStart \/ OtherRelease

\* the pool hands a free connection to the query at the head of its queue,
\* and every query on a connection settles: by its answer or by its timer
SpecEnv ==
  /\ InitEnv
  /\ [][NextEnv]_vars
  /\ WF_vars(Connect)
  /\ WF_vars(Settle)
  /\ WF_vars(OtherAcquire)
  /\ WF_vars(OtherRelease)

\* the server started under every value of MYSQL_ALLOW_WRITE
InitConfig ==
  /\ env \in AllowWriteValues
  /\ mode = loadConfig(env)
  /\ credentials = DefaultCredentials
  /\ busy = 0
  /\ openTx = 0
  /\ Idle

SpecConfig == InitConfig /\ [][NextEnv]_vars

\* applyCharacterLimit on its own
InitTruncate ==
  /\ env = <<>>
  /\ mode = loadConfig(env)
  /\ openTx = 0
  /\ credentials = DefaultCredentials
  /\ busy = 0
  /\ pc = "idle"
  /\ args = NoArgs
  /\ parseResult = <<>>
  /\ log = <<>>
  /\ dbSql = <<>>
  /\ ahead = 0
  /\ dbFate = NoFate
  /\ result = <<>>
  /\ \E n \in LimitLengths, includeWarning \in BOOLEAN :
       rendered = <<[ text |-> [format |-> "markdown", shape |-> "tabular",
                               truncated |-> <<>>, length |-> n],
                      includeWarning |-> includeWarning ]>>
  /\ limited = <<>>
  /\ response = <<>>

SpecTruncate == InitTruncate /\ [][ApplyLimit]_vars

\* ===================================================================== claims
\* the ParseResult of the current request
Verdict == parseResult[1]

\* the statement units parseQuery works on
Units(query) == splitStatements(normalizeQuery(query))

\* the units of the current request, once parseQuery has run
Parsed == parseResult # <<>>

UnitAllowed(unit) == isAllowed(detectQueryType(unit), mode)

\* the units of a query that are rejected on their own
Rejecting(units) == {i \in 1..Len(units) : ~UnitAllowed(units[i])}

\* ---- C1
\* number of "(" minus number of ")" before position i
Depth(s, i) ==
  Cardinality({j \in 1..(i - 1) : s[j] = "("}) - Cardinality({j \in 1..(i - 1) : s[j] = ")"})

WriteVerbs == {"INSERT", "UPDATE", "DELETE", "REPLACE"}

\* the unit performs a write: its first token is a write verb, or it starts
\* with a WITH clause and the first statement verb outside the parenthesised
\* common-table-expression definitions is a write verb
PerformsWrite(unit) ==
  LET upper == toUpperCase(unit)
      first == FirstWord(upper)
      verbs == {j \in 2..Len(upper) :
                  /\ WholeWord(upper, j, CteKeywords \cup {"REPLACE"})
                  /\ Depth(upper, j) = 0}
  IN  \/ Len(first) = 1 /\ first[1] \in WriteVerbs
      \/ /\ WholeWord(upper, 1, {"WITH"})
         /\ verbs # {}
         /\ upper[Min(verbs)] \in WriteVerbs

\* C1: in ReadOnly mode a query with a unit that performs INSERT, UPDATE,
\* DELETE or REPLACE (also after a WITH clause) is rejected by parseQuery.
C1_ReadOnlyRejectsWrites ==
  (Parsed /\ mode = READ_ONLY
     /\ \E i \in 1..Len(Units(args.query)) : PerformsWrite(Units(args.query)[i]))
  => ~Verdict.allowed

\* ---- C2
\* C2: every kind of NeverAllowed is rejected by isAllowed in both modes, and
\* so every audited unit of such a kind is BLOCKED.
C2_NeverAllowedRejected ==
  /\ \A k \in NEVER_ALLOWED : \A m \in OperationMode : ~isAllowed(k, m)
  /\ \A i \in 1..Len(log) :
       log[i].queryType \in NEVER_ALLOWED => log[i].status = "BLOCKED"

C2_Witness ==
  /\ pc = "returned"
  /\ mode = WRITE_ENABLED
  /\ \E i \in 1..Len(log) : log[i].queryType = "DROP" /\ log[i].status = "BLOCKED"

\* ---- C3
\* C3: a kind of WriteModeAllowed is allowed by isAllowed exactly in
\* WriteEnabled mode.
C3_WriteKindsIffWriteEnabled ==
  /\ \A k \in WRITE_MODE_ALLOWED : \A m \in OperationMode :
       isAllowed(k, m) <=> (m = WRITE_ENABLED)
  /\ \A i \in 1..Len(log) :
       log[i].queryType \in WRITE_MODE_ALLOWED
         => (log[i].status = "EXECUTED" <=> mode = WRITE_ENABLED)

C3_Witness ==
  /\ pc = "awaiting"
  /\ mode = WRITE_ENABLED
  /\ \E i \in 1..Len(log) : log[i].queryType = "DELETE" /\ log[i].status = "EXECUTED"

\* ---- C4
OutsidePolicySets == QueryType \ (ALWAYS_ALLOWED \cup NEVER_ALLOWED \cup WRITE_MODE_ALLOWED)

\* C4: the kinds in none of the three policy sets are Create, Alter, Use, Set
\* and Unknown, and isAllowed rejects each of them in both modes.
C4_DefaultDeny ==
  /\ OutsidePolicySets = {"CREATE", "ALTER", "USE", "SET", "UNKNOWN"}
  /\ \A k \in OutsidePolicySets : \A m \in OperationMode : ~isAllowed(k, m)
  /\ \A i \in 1..Len(log) :
       log[i].queryType \in OutsidePolicySets => log[i].status = "BLOCKED"

C4_Witness ==
  /\ pc = "returned"
  /\ mode = WRITE_ENABLED
  /\ \E i \in 1..Len(log) : log[i].queryType = "CREATE" /\ log[i].status = "BLOCKED"

\* ---- C5
\* C5: every kind of AlwaysAllowed is allowed by isAllowed in both modes.
C5_AlwaysAllowedAccepted ==
  /\ \A k \in ALWAYS_ALLOWED : \A m \in OperationMode : isAllowed(k, m)
  /\ \A i \in 1..Len(log) :
       log[i].queryType \in ALWAYS_ALLOWED => log[i].status = "EXECUTED"

C5_Witness ==
  /\ pc = "awaiting"
  /\ mode = READ_ONLY
  /\ \E i \in 1..Len(log) : log[i].queryType = "EXPLAIN" /\ log[i].status = "EXECUTED"

\* ---- C6
\* C6 as stated: parseQuery allows a query iff every one of its units is
\* allowed on its own, and a rejection carries the reason of the first
\* rejecting unit.
C6_AllowedIffEveryUnitAllowed ==
  Parsed =>
    LET units == Units(args.query)
        rejecting == Rejecting(units)
    IN  /\ Verdict.allowed <=> (rejecting = {})
        /\ rejecting # {} =>
             Verdict.reason = explainBlocked(detectQueryType(units[Min(rejecting)]), mode)

\* C6 amended: parseQuery allows a query iff it has at least one unit and
\* every unit is allowed on its own; a query without units is rejected with
\* the reason "Empty or invalid query"; otherwise a rejection carries the
\* reason of the first rejecting unit.
C6_AllowedIffSomeAndEveryUnitAllowed ==
  Parsed =>
    LET units == Units(args.query)
        rejecting == Rejecting(units)
    IN  /\ Verdict.allowed <=> (Len(units) >= 1 /\ rejecting = {})
        /\ Len(units) = 0 => Verdict.reason = <<"Empty or invalid query">>
        /\ rejecting # {} =>
             Verdict.reason = explainBlocked(detectQueryType(units[Min(rejecting)]), mode)

C6_Witness ==
  /\ pc = "returned"
  /\ Parsed
  /\ LET units == Units(args.query)
     IN  /\ Len(units) >= 2
         /\ UnitAllowed(units[1])
         /\ ~UnitAllowed(units[2])
  /\ ~Verdict.allowed

\* ---- C7
\* C7: for a query with units, the kind parseQuery reports is the kind of the
\* first rejecting unit when a unit is rejected, and the kind of the first
\* unit otherwise.
C7_ReportedKind ==
  (Parsed /\ Len(Units(args.query)) >= 1) =>
    LET units == Units(args.query)
        rejecting == Rejecting(units)
    IN  Verdict.queryType =
          IF rejecting # {} THEN detectQueryType(units[Min(rejecting)])
          ELSE detectQueryType(units[1])

\* Scenario 4: SELECT ...; DROP ... is reported as DROP in write mode
C7_Witness ==
  /\ pc = "returned"
  /\ mode = WRITE_ENABLED
  /\ Parsed
  /\ LET units == Units(args.query)
     IN  /\ Len(units) = 2
         /\ detectQueryType(units[1]) = "SELECT"
         /\ detectQueryType(units[2]) = "DROP"
  /\ Verdict.queryType = "DROP"

\* ---- C8
\* C8: a request calls the database at most once, and only after parseQuery
\* allowed the whole query; a request that failed validation or was rejected
\* has returned without a database call.
C8_AtMostOneCallAfterAllow ==
  /\ Len(dbSql) <= 1
  /\ dbSql # <<>> => (Parsed /\ Verdict.allowed)
  /\ (pc = "returned" /\ (QueryInputSchema(args) # <<>> \/ (Parsed /\ ~Verdict.allowed)))
       => dbSql = <<>>

C8_Witness ==
  /\ pc = "returned"
  /\ Len(dbSql) = 1
  /\ response[1].text[1] = "**Error: Query execution timeout**"

\* ---- C9
\* the table entry of a token
TableEntry(token) ==
  IF Len(token) = 1 /\ token[1] \in Keywords THEN KeywordTable[token[1]] ELSE "UNKNOWN"

\* C9 as stated: the kind of every classified unit is the table entry of its
\* first whitespace-delimited token (in upper case).
C9_KindOfFirstToken ==
  \A i \in 1..Len(log) :
    /\ log[i].queryType \in QueryType
    /\ log[i].queryType = TableEntry(FirstWord(toUpperCase(log[i].query)))

\* the unit starts with the letters WITH and has a whole word WITH that is
\* followed, later, by a whole word SELECT, INSERT, UPDATE or DELETE
CteShaped(upper) ==
  /\ upper[1] = "WITH"
  /\ \E w \in 1..Len(upper) : \E k \in (w + 1)..Len(upper) :
       WholeWord(upper, w, {"WITH"}) /\ WholeWord(upper, k, CteKeywords)

\* C9 amended: the kind of every classified unit is the table entry of its
\* first whitespace-delimited token in upper case, except for a unit that
\* starts with WITH and has a whole word WITH followed by a whole word
\* SELECT, INSERT, UPDATE or DELETE: its kind is that of the first such word
\* after the first whole word WITH.
C9_KindOfFirstTokenOrCte ==
  \A i \in 1..Len(log) :
    LET upper == toUpperCase(log[i].query)
    IN  /\ log[i].queryType \in QueryType
        /\ ~CteShaped(upper) => log[i].queryType = TableEntry(FirstWord(upper))
        /\ CteShaped(upper) =>
             \E w \in 1..Len(upper) : \E k \in (w + 1)..Len(upper) :
               /\ WholeWord(upper, w, {"WITH"})
               /\ \A v \in 1..(w - 1) : ~WholeWord(upper, v, {"WITH"})
               /\ WholeWord(upper, k, CteKeywords)
               /\ \A j \in (w + 1)..(k - 1) : ~WholeWord(upper, j, CteKeywords)
               /\ log[i].queryType = upper[k]

C9_Witness ==
  /\ pc = "returned"
  /\ \E i \in 1..Len(log) :
       /\ CteShaped(toUpperCase(log[i].query))
       /\ FirstWord(toUpperCase(log[i].query)) = <<"WITH">>
       /\ log[i].queryType = "DELETE"

\* ---- C10
\* the query with every comment replaced by one space
CommentsAsSpaces(query) ==
  ReplaceBlockComments(ReplaceLineComments(query, 1, <<" ">>), 1, <<" ">>)

\* C10: parseQuery returns the same allowed flag and the same kind for a
\* query and for the query with each comment replaced by a single space.
C10_CommentsIgnored ==
  Parsed =>
    LET plain == parseQuery(CommentsAsSpaces(args.query), mode)
    IN  /\ plain.allowed = Verdict.allowed
        /\ plain.queryType = Verdict.queryType

\* ---- C11
\* the lower-case spelling of the words of the inputs
UpperToLower ==
  "SELECT" :> "select" @@ "Select" :> "select" @@ "DELETE" :> "delete" @@
  "DROP" :> "drop" @@ "WITH" :> "with" @@ "X" :> "x"

\* the text with the letters of every word put in the given case
Recased(s, case) ==
  LET table == IF case = "upper" THEN LowerToUpper ELSE UpperToLower
  IN  [i \in 1..Len(s) |-> IF s[i] \in DOMAIN table THEN table[s[i]] ELSE s[i]]

\* C11: the kind detectQueryType returns for a statement, and the kind and
\* the allowed flag parseQuery returns for the query, stay the same when the
\* letters of the text are put in upper case or in lower case.
C11_CaseInsensitive ==
  Parsed =>
    \A case \in {"upper", "lower"} :
      Recased(args.query, case) # args.query =>
      LET recased == parseQueryRun(Recased(args.query, case), mode)
      IN  /\ recased.result.allowed = Verdict.allowed
          /\ recased.result.queryType = Verdict.queryType
          /\ Len(recased.log) = Len(log)
          /\ \A i \in 1..Len(log) : recased.log[i].queryType = log[i].queryType

\* a query spelled in mixed and lower case was classified and allowed
C11_Witness ==
  /\ Parsed
  /\ args.query = <<"Select", " ", "x">>
  /\ Verdict.allowed
  /\ Verdict.queryType = "SELECT"
  /\ Recased(args.query, "lower") # args.query
  /\ Recased(args.query, "upper") # args.query

\* ---- C12
\* the text applyCharacterLimit was given, and the text it returned
LimitInput == rendered[1].text
LimitOutput == limited[1]

\* C12: whatever the length of the text and whether or not the warning is
\* asked for, the text applyCharacterLimit returns, warning included, has at
\* most CHARACTER_LIMIT characters.
C12_LengthWithinLimit ==
  limited # <<>> => LimitedLength(LimitOutput) <= CHARACTER_LIMIT

\* a text far longer than the limit was cut and the warning appended
C12_Witness ==
  /\ limited # <<>>
  /\ LimitInput.length = 1000000
  /\ rendered[1].includeWarning
  /\ LimitOutput.warning # <<>>
  /\ LimitOutput.kept < CHARACTER_LIMIT

\* ---- C13
\* C13: a text of at most CHARACTER_LIMIT characters is returned as it is;
\* of a longer one, when the warning is asked for, a prefix is returned
\* followed by the warning, the warning states the length of the text given,
\* and the whole has exactly CHARACTER_LIMIT characters.
C13_UnchangedOrCutToLimit ==
  limited # <<>> =>
    /\ LimitOutput.text = LimitInput
    /\ LimitInput.length <= CHARACTER_LIMIT =>
         /\ LimitOutput.kept = LimitInput.length
         /\ LimitOutput.warning = <<>>
    /\ (LimitInput.length > CHARACTER_LIMIT /\ rendered[1].includeWarning) =>
         /\ LimitOutput.warning # <<>>
         /\ LimitOutput.kept <= LimitInput.length
         /\ LimitOutput.warning[1].original = LimitInput.length
         /\ LimitedLength(LimitOutput) = CHARACTER_LIMIT

\* a rendering of 40,000 characters came out as 25,000 characters that end
\* with the warning
C13_Witness ==
  /\ limited # <<>>
  /\ LimitInput.length = 40000
  /\ rendered[1].includeWarning
  /\ LimitOutput.warning # <<>>
  /\ LimitOutput.warning[1].original = 40000
  /\ LimitedLength(LimitOutput) = 25000

\* ---- C14
\* C14: when a request succeeds, the truncated flag of its result, which
\* formatAsJSON writes into the metadata, is true exactly when the rendering
\* had more than CHARACTER_LIMIT characters before it was cut.
C14_TruncatedFlagTellsTruncation ==
  (pc = "returned" /\ result # <<>>) =>
    /\ result[1].truncated <=> (LimitInput.length > CHARACTER_LIMIT)
    /\ LimitInput.format = "json" =>
         LimitInput.truncated = <<LimitInput.length > CHARACTER_LIMIT>>

\* ---- C15
\* C15: handleQueryTool lets no error out, and whenever it has returned,
\* whatever validation, authorization, execution, formatting and truncation
\* came to, it returned exactly one content item, of type text.
C15_AlwaysOneTextItem ==
  /\ pc # "raised"
  /\ pc = "returned" =>
       /\ Len(response) = 1
       /\ response[1].type = "text"
       /\ response[1].text # <<>>

\* the request returned after pool.query failed with an error that has no code
C15_Witness ==
  /\ pc = "returned"
  /\ dbFate.kind = "error"
  /\ dbFate.code = ""
  /\ Len(response) = 1
  /\ response[1].text[1] = "**Error: "

\* ---- C16
\* C16: when the arguments fail QueryInputSchema (empty or over-long query,
\* response_format other than markdown and json, a key the schema does not
\* declare), the request returns the input-validation text, and parseQuery,
\* logQuery and the database are not reached.
C16_InvalidArgsGetValidationText ==
  (pc # "idle" /\ QueryInputSchema(args) # <<>>) =>
    /\ pc = "returned"
    /\ response[1].text[1] = "**Input validation error**"
    /\ parseResult = <<>>
    /\ log = <<>>
    /\ dbSql = <<>>

\* ---- C17
\* the text of handleTimeoutError is what the request returned
TimeoutTextReturned ==
  /\ pc = "returned"
  /\ response[1].text = handleTimeoutError(QueryTimeout)

ReturnedText == response[1].text

\* C18: the text returned tells the cause of the failure: the validation
\* text for arguments that fail the schema, the text of the case of its code
\* for a database error that carries a code, and the query-execution-timeout
\* text only when the database stayed silent until the query timeout expired.
C18_TextByCause ==
  pc = "returned" =>
    /\ QueryInputSchema(args) # <<>> => ReturnedText[1] = "**Input validation error**"
    /\ (dbFate.kind = "error" /\ dbFate.code # "") =>
         ReturnedText = handleMySQLError(PoolError(dbFate, dbSql[1]))
    /\ ReturnedText[1] = "**Error: Query execution timeout**" => dbFate.kind = "silent"

\* ---- C19
\* the suggestions of the access-denied text that speak of permissions
PermissionSuggestions ==
  { "- Contact your database administrator to grant appropriate permissions",
    "- Check that your user has been granted access to the specific database/table" }

\* C19: the text returned for an access-denied error of the database holds a
\* suggestion about permissions, and no text returned holds the configured
\* user or password, so that it is the same whatever the credentials are.
C19_NoCredentialInText ==
  pc = "returned" =>
    /\ dbFate.code \in {"ER_ACCESS_DENIED_ERROR", "ER_TABLEACCESS_DENIED_ERROR",
                        "ER_DBACCESS_DENIED_ERROR"} =>
         \E i \in 1..Len(ReturnedText) : ReturnedText[i] \in PermissionSuggestions
    /\ \A i \in 1..Len(ReturnedText) :
         ReturnedText[i] \notin {credentials.user, credentials.password}

C21_NoTransactionLeftOpen == openTx = 0

\* ---- C22
\* the spellings of true, in any case of its letters
TrueSpellings == {"true", "TRUE", "True", "tRUE"}

\* C22: the mode is WriteEnabled exactly when MYSQL_ALLOW_WRITE is set to the
\* text true, in any case of its letters, and ReadOnly otherwise (unset
\* included); it is fixed when the configuration is loaded and no request or
\* other operation changes it.
C22_ModeFromEnvAndFixed ==
  /\ [](mode = IF env # <<>> /\ env[1] \in TrueSpellings THEN WRITE_ENABLED ELSE READ_ONLY)
  /\ [][mode' = mode /\ env' = env]_vars

C22_Witness ==
  /\ pc = "returned"
  /\ env = <<"TRUE">>
  /\ mode = WRITE_ENABLED
  /\ dbFate.kind = "ok"

C24_SentTextIsClassifiedText ==
  dbSql # <<>> => dbSql = Units(args.query)

\* ---- C25
\* a line comment start (--) in the text
HasLineComment(q) == \E i \in 1..(Len(q) - 1) : q[i] = "-" /\ q[i + 1] = "-"

\* a block comment (/* ... */) in the text
HasBlockComment(q) ==
  \E i \in 1..(Len(q) - 1) :
    /\ q[i] = "/" /\ q[i + 1] = "*"
    /\ \E j \in (i + 2)..(Len(q) - 1) : q[j] = "*" /\ q[j + 1] = "/"

\* no whitespace at either end, and every whitespace run is one space
WhitespaceNormal(q) ==
  /\ q # <<>> => q[1] \notin Space /\ q[Len(q)] \notin Space
  /\ \A i \in 1..Len(q) : q[i] \in Space => q[i] = " "
  /\ \A i \in 1..(Len(q) - 1) : ~(q[i] \in Space /\ q[i + 1] \in Space)

\* C25: the output of normalizeQuery contains no comment (no -- and no
\* block comment), has no leading or trailing whitespace, has every run of
\* whitespace collapsed to one space, and normalizeQuery is idempotent.
C25_NormalizedHasNoComment ==
  pc # "idle" =>
    LET n == normalizeQuery(args.query)
    IN  /\ ~HasLineComment(n)
        /\ ~HasBlockComment(n)
        /\ WhitespaceNormal(n)
        /\ normalizeQuery(n) = n

\* ---- C26
\* the decision in the specified order: never-allowed, always-allowed,
\* write-mode-allowed under WriteEnabled, else reject
SpecifiedDecision(queryType, operationMode) ==
  IF queryType \in NEVER_ALLOWED THEN FALSE
  ELSE IF queryType \in ALWAYS_ALLOWED THEN TRUE
  ELSE IF operationMode = WRITE_ENABLED /\ queryType \in WRITE_MODE_ALLOWED THEN TRUE
  ELSE FALSE

\* C26: isAllowed, which tests the always-allowed list before the
\* never-allowed list, returns for every kind and mode what the specified
\* decision order returns, the three lists being pairwise disjoint; so every
\* unit a request classified was let through or blocked as specified.
C26_DecisionOrderImmaterial ==
  /\ ALWAYS_ALLOWED \cap NEVER_ALLOWED = {}
  /\ ALWAYS_ALLOWED \cap WRITE_MODE_ALLOWED = {}
  /\ NEVER_ALLOWED \cap WRITE_MODE_ALLOWED = {}
  /\ \A queryType \in QueryType, operationMode \in OperationMode :
       isAllowed(queryType, operationMode) = SpecifiedDecision(queryType, operationMode)
  /\ \A i \in 1..Len(log) :
       (log[i].status = "EXECUTED") = SpecifiedDecision(log[i].queryType, mode)

\* a never-allowed unit was blocked in write mode
C26_Witness ==
  /\ pc = "returned"
  /\ mode = WRITE_ENABLED
  /\ log # <<>>
  /\ log[Len(log)].queryType \in NEVER_ALLOWED
  /\ log[Len(log)].status = "BLOCKED"

\* ---- C27
\* the values of the declared type of the native result: an array without
\* the key affectedRows, or a packet with it
NativeShapes ==
  {[isArray |-> TRUE, hasAffectedRows |-> FALSE, count |-> n] : n \in 0..2}
  \cup {[isArray |-> FALSE, hasAffectedRows |-> TRUE, count |-> n] : n \in 0..2}

\* columns and rows present, affectedRows absent, rowCount the number of rows
Tabular(r) ==
  /\ r.columns # <<>> /\ r.rows # <<>> /\ r.affectedRows = <<>>
  /\ r.rowCount = r.rows[1]

\* affectedRows present, columns and rows absent, rowCount = affectedRows
Acknowledgement(r) ==
  /\ r.affectedRows # <<>> /\ r.columns = <<>> /\ r.rows = <<>>
  /\ r.rowCount = r.affectedRows[1]

\* C27: every result formatResult builds has exactly one of two shapes,
\* tabular or acknowledgement; no native result yields neither or both.
C27_OneOfTwoShapes ==
  /\ result # <<>> => (Tabular(result[1]) # Acknowledgement(result[1]))
  /\ \A rows \in NativeShapes :
       Tabular(formatResult(rows)) # Acknowledgement(formatResult(rows))

\* an OkPacket of three affected rows was formatted
C27_Witness ==
  /\ pc = "returned"
  /\ result # <<>>
  /\ dbFate.kind = "ok"
  /\ Acknowledgement(result[1])
  /\ result[1].rowCount = 3

\* ---- C28
\* the sentences that tell the caller to set MYSQL_ALLOW_WRITE=true
WriteModeHints ==
  { " operations are not allowed in READ-ONLY mode. Set MYSQL_ALLOW_WRITE=true to enable write operations.",
    ") is not allowed in READ-ONLY mode. Set MYSQL_ALLOW_WRITE=true to enable transactions.",
    ") are not allowed in READ-ONLY mode. Set MYSQL_ALLOW_WRITE=true to enable write operations.",
    "To enable write operations, set the environment variable: MYSQL_ALLOW_WRITE=true" }

\* the text tells the caller to enable write mode
TellsToEnableWrite(text) == \E i \in 1..Len(text) : text[i] \in WriteModeHints

\* C28: a rejection tells the caller to enable write mode, in its reason or
\* its suggestion, exactly when the mode is ReadOnly and the rejected kind is
\* write-mode-allowed; never for a kind that WriteEnabled rejects too.
C28_WriteHintOnlyWhereItHelps ==
  /\ Parsed /\ ~Verdict.allowed =>
       ((TellsToEnableWrite(Verdict.reason) \/ TellsToEnableWrite(Verdict.suggestion))
          <=> (mode = READ_ONLY /\ Verdict.queryType \in WRITE_MODE_ALLOWED))
  /\ \A queryType \in QueryType, operationMode \in OperationMode :
       (TellsToEnableWrite(explainBlocked(queryType, operationMode))
          \/ TellsToEnableWrite(suggestFix(queryType, operationMode)))
       => (operationMode = READ_ONLY /\ queryType \in WRITE_MODE_ALLOWED)

\* a DDL statement rejected in read-only mode, without the hint
C28_Witness ==
  /\ pc = "returned"
  /\ Parsed /\ ~Verdict.allowed
  /\ mode = READ_ONLY
  /\ Verdict.queryType = "CREATE"
  /\ ~TellsToEnableWrite(Verdict.reason)

\* ---- C29
\* C29: an audit entry with status EXECUTED is written for a unit only if
\* the unit is then sent to the database in the same request: no request that
\* ends rejected leaves an EXECUTED entry, and every unit of the request gets
\* an audit entry.
C29_ExecutedMeansSent ==
  Parsed =>
    /\ \A i \in 1..Len(log) : log[i].status = "EXECUTED" => dbSql # <<>>
    /\ Len(log) = Len(Units(args.query))

\* ---- C30
\* number of characters of a piece of a text
PieceLen(piece) ==
  IF piece = LongKey THEN LongKeyLen
  ELSE IF piece = LongWord THEN MAX_QUERY_LENGTH + 1
  ELSE Len(piece)

RECURSIVE PiecesLength(_)
\* number of characters of the pieces of a text, which the text has at least
PiecesLength(text) ==
  IF text = <<>> THEN 0 ELSE PieceLen(Head(text)) + PiecesLength(Tail(text))

\* length of the text handed back: what applyCharacterLimit returned on
\* success, the pieces of the translated error otherwise
ReturnedLength ==
  IF limited # <<>> THEN LimitedLength(limited[1]) ELSE PiecesLength(ReturnedText)

\* C30: in every returned state the text handed back by handleQueryTool has
\* at most CHARACTER_LIMIT characters, on success and on the rejection and
\* error paths alike.
C30_ReturnedTextWithinLimit ==
  pc = "returned" => ReturnedLength <= CHARACTER_LIMIT

====
